---------------------------- MODULE Spec2Model ----------------------------
(***************************************************************************)
(* Model of projet_azure/generate_reviews.py: the module-level pools, the  *)
(* generator generate_fake_review() and the driver loop                    *)
(*     while True: review = generate_fake_review(); print; print; sleep(5) *)
(*                                                                         *)
(* Randomness (random.choice, random.randint, faker, uuid4) is a           *)
(* nondeterministic draw: every call site of one generator call has its    *)
(* own draw, and a draw is the low or the high end of the range the        *)
(* library call can return.  The wall clock is a date and a second of the  *)
(* day; time.sleep(5) moves it on by five seconds.  uuid4, faker and the   *)
(* date arithmetic are library code: they are modelled by what their       *)
(* documentation says they return.                                         *)
(***************************************************************************)
EXTENDS Integers, Sequences, FiniteSets, TLC

VARIABLES
    airlines,        \* module global, line 8
    sample_titles,   \* module global, line 14
    sample_bodies,   \* module global, line 21
    review,          \* module global assigned at line 61 (Unbound before)
    stdout,          \* the texts written by print(), one entry per call
    now,             \* the wall clock: [date, sec]
    pc,              \* the statement the driver is about to execute
    calls,           \* history: result, day and moment of every generator call
    events           \* history: the driver's steps, in the order they ran

vars == <<airlines, sample_titles, sample_bodies, review, stdout, now, pc,
          calls, events>>

-----------------------------------------------------------------------------
(* Bounds and program constants *)

\* the driver loop is unbounded; the model stops generating after MaxIter calls
MaxIter == 3

\* time.sleep(5), line 64
SleepSeconds == 5

\* random.randint(1, 5), line 47
RatingLow == 1
RatingHigh == 5

-----------------------------------------------------------------------------
(* The pools, lines 8-38 *)

airlines_literal ==
    << "Air France", "Royal Air Maroc", "Air Arabia", "Emirates",
       "Saudia", "Ryanair", "Qatar Airways", "Lufthansa",
       "TAP Air Portugal", "KLM", "Turkish Airlines", "EasyJet" >>

sample_titles_literal ==
    << "Excellent experience", "Terrible flight", "Smooth journey", "Great service",
       "Awful food", "Lost luggage", "On-time and comfortable", "Never again",
       "Highly recommended", "Mediocre experience", "Delayed and frustrating", "Crew was amazing",
       "Unexpectedly good", "Total disappointment", "Worth every penny", "Terrible customer service" >>

sample_bodies_literal ==
    << "The flight was on time and the crew was extremely helpful and friendly.",
       "I had the worst experience ever. The staff was rude and the plane was dirty.",
       "Seats were comfortable and there was plenty of legroom. Great value for the money.",
       "The food served on board was awful. Cold and tasteless.",
       "We departed late but arrived early. Impressive time management.",
       "Customer service was unreachable and offered no help with my issue.",
       "The cabin was clean and the inflight entertainment was decent.",
       "I will never book with this airline again. Completely unprofessional.",
       "Everything went smoothly. Luggage arrived on time and check-in was fast.",
       "Very noisy cabin and poor handling of turbulence.",
       "The flight attendants were polite and always smiling. It made a difference.",
       "They lost my suitcase and it took over a week to get it back.",
       "Boarding process was chaotic and disorganized.",
       "It was a short flight but surprisingly comfortable. Would fly again.",
       "They overbooked the flight and bumped me off. Unacceptable.",
       "Inflight entertainment was outdated and barely worked." >>

Range(s) == { s[i] : i \in 1..Len(s) }

-----------------------------------------------------------------------------
(* Random draws *)

\* the call sites of generate_fake_review that consume randomness, lines 41-48
Sites == {"uuid4", "airline", "title", "body", "name", "randint", "date"}

\* a draw is the low or the high end of what the call can return
Levels == {"low", "high"}

\* The draws of one generator call: one level per call site.  The model takes
\* the vectors with at most one site at its high end, and the vector with
\* every site at its high end: every site takes both ends.
RandomOutcomes ==
    { w \in [Sites -> Levels] :
        \/ Cardinality({ s \in Sites : w[s] = "high" }) <= 1
        \/ \A s \in Sites : w[s] = "high" }

\* the integer in lo..hi a draw of level q yields
Pick(q, lo, hi) == IF q = "low" THEN lo ELSE hi

-----------------------------------------------------------------------------
(* Calendar arithmetic of datetime.date *)

IsLeap(y) == (y % 4 = 0 /\ y % 100 # 0) \/ y % 400 = 0

DaysInMonth(y, m) ==
    IF m = 2 THEN (IF IsLeap(y) THEN 29 ELSE 28)
    ELSE IF m \in {4, 6, 9, 11} THEN 30 ELSE 31

RECURSIVE DaysBeforeMonth(_, _)
DaysBeforeMonth(y, m) ==
    IF m = 1 THEN 0 ELSE DaysBeforeMonth(y, m - 1) + DaysInMonth(y, m - 1)

MkDate(y, m, d) == [year |-> y, month |-> m, day |-> d]

\* date.timetuple().tm_yday
DayOfYear(d) == DaysBeforeMonth(d.year, d.month) + d.day

\* date(y, 1, 1) + timedelta(days = n - 1), for n within year y
DateOfYearDay(y, n) ==
    LET m == CHOOSE k \in 1..12 :
                 DaysBeforeMonth(y, k) < n /\ n <= DaysBeforeMonth(y, k) + DaysInMonth(y, k)
    IN  MkDate(y, m, n - DaysBeforeMonth(y, m))

\* d + timedelta(days = 1)
NextDay(d) ==
    IF d.day < DaysInMonth(d.year, d.month) THEN MkDate(d.year, d.month, d.day + 1)
    ELSE IF d.month < 12 THEN MkDate(d.year, d.month + 1, 1)
    ELSE MkDate(d.year + 1, 1, 1)

\* a <= b on dates
DateLeq(a, b) ==
    \/ a.year < b.year
    \/ a.year = b.year /\ a.month < b.month
    \/ a.year = b.year /\ a.month = b.month /\ a.day <= b.day

-----------------------------------------------------------------------------
(* Text: a Python str that the program builds is a sequence of pieces *)

DigitChars == <<"0", "1", "2", "3", "4", "5", "6", "7", "8", "9">>

\* str(n) for an integer n >= 0
RECURSIVE Decimal(_)
Decimal(n) ==
    IF n < 10 THEN <<DigitChars[n + 1]>>
    ELSE Decimal(n \div 10) \o <<DigitChars[(n % 10) + 1]>>

\* zero padding to width w, as the %Y, %m and %d directives pad
RECURSIVE ZeroPad(_, _)
ZeroPad(s, w) == IF Len(s) >= w THEN s ELSE ZeroPad(<<"0">> \o s, w)

\* mutant of strftime: the directives %d and %m exchanged
strftime_day_first(d) ==
    ZeroPad(Decimal(d.year), 4) \o <<"-">> \o ZeroPad(Decimal(d.day), 2)
        \o <<"-">> \o ZeroPad(Decimal(d.month), 2)

\* date.strftime("%Y-%m-%d"), line 48
strftime(d) ==
    ZeroPad(Decimal(d.year), 4) \o <<"-">> \o ZeroPad(Decimal(d.month), 2)
        \o <<"-">> \o ZeroPad(Decimal(d.day), 2)

-----------------------------------------------------------------------------
(* The library calls of generate_fake_review *)

\* str(uuid.uuid4()), line 41: the canonical text of a version-4 UUID
uuid4(q) ==
    IF q = "low" THEN "00000000-0000-4000-8000-000000000000"
    ELSE "ffffffff-ffff-4fff-bfff-ffffffffffff"

\* mutant of choice: seq[random.randint(0, len(seq))], whose highest index
\* is one past the end
choice_past_end(seq, q) ==
    IF Len(seq) = 0 \/ q = "high" THEN [ok |-> FALSE, error |-> "IndexError"]
    ELSE [ok |-> TRUE, value |-> seq[1]]

\* random.choice(seq), lines 42-44: IndexError on an empty sequence
choice(seq, q) ==
    IF Len(seq) = 0 THEN [ok |-> FALSE, error |-> "IndexError"]
    ELSE [ok |-> TRUE, value |-> seq[Pick(q, 1, Len(seq))]]

\* faker.name(), line 46
name(q) == IF q = "low" THEN "Aaron Adams" ELSE "Zoe Zimmerman"

\* mutant of randint: the upper bound taken as exclusive and raised by one
randint_past_high(a, b, q) == Pick(q, a, b + 1)

\* random.randint(a, b), line 47: a <= result <= b
randint(a, b, q) == Pick(q, a, b)

\* mutant of date_this_year: after_today=True, a date anywhere in the year
date_this_year_after_today(today, q) ==
    DateOfYearDay(today.year, Pick(q, 1, DaysBeforeMonth(today.year, 12) + 31))

\* faker.date_this_year(), line 48, with its defaults before_today=True,
\* after_today=False: a date from 1 January of today's year to today
date_this_year(today, q) ==
    DateOfYearDay(today.year, Pick(q, 1, DayOfYear(today)))

-----------------------------------------------------------------------------
(* generate_fake_review, lines 40-58 *)

Keys == <<"review_id", "airline", "reviewer", "rating", "date", "title", "body">>

\* mutant of generate_fake_review: the title drawn from the pool of bodies
generate_fake_review_title_from_bodies(A, T, B, today, w) ==
    LET airline == choice(A, w["airline"])
        title   == choice(B, w["title"])
        body    == choice(B, w["body"])
    IN  IF ~airline.ok THEN airline
        ELSE IF ~title.ok THEN title
        ELSE [ok |-> TRUE,
              value |-> [review_id |-> uuid4(w["uuid4"]),
                         airline   |-> airline.value,
                         reviewer  |-> name(w["name"]),
                         rating    |-> randint(RatingLow, RatingHigh, w["randint"]),
                         date      |-> strftime(date_this_year(today, w["date"])),
                         title     |-> title.value,
                         body      |-> body.value]]

\* The call with pools A, T, B on day today with draws w: the dict it
\* returns, or the exception that leaves it.
generate_fake_review(A, T, B, today, w) ==
    LET review_id == uuid4(w["uuid4"])
        airline   == choice(A, w["airline"])
        title     == choice(T, w["title"])
        body      == choice(B, w["body"])
        reviewer  == name(w["name"])
        rating    == randint(RatingLow, RatingHigh, w["randint"])
        date      == strftime(date_this_year(today, w["date"]))
    IN  IF ~airline.ok THEN airline
        ELSE IF ~title.ok THEN title
        ELSE IF ~body.ok THEN body
        ELSE [ok |-> TRUE,
              value |-> [review_id |-> review_id,
                         airline   |-> airline.value,
                         reviewer  |-> reviewer,
                         rating    |-> rating,
                         date      |-> date,
                         title     |-> title.value,
                         body      |-> body.value]]

-----------------------------------------------------------------------------
(* What print() writes, lines 62-63 *)

\* repr of a str value
repr_str(s) == <<"'", s, "'">>

\* repr of one dict value: an int prints in decimal, a str in quotes
\* (the date is a str that the model holds piece by piece)
repr_value(r, k) ==
    IF k = "rating" THEN Decimal(r[k])
    ELSE IF k = "date" THEN <<"'">> \o r[k] \o <<"'">>
    ELSE repr_str(r[k])

\* the items of repr(dict) from the i-th key on, in insertion order
RECURSIVE repr_items(_, _)
repr_items(r, i) ==
    IF i > Len(Keys) THEN <<>>
    ELSE repr_str(Keys[i]) \o <<": ">> \o repr_value(r, Keys[i])
           \o (IF i < Len(Keys) THEN <<", ">> ELSE <<>>) \o repr_items(r, i + 1)

\* f"{review}" for a dict
repr_dict(r) == <<"{">> \o repr_items(r, 1) \o <<"}">>

\* line 62: print("\n New Review Generated:")
HeaderText == <<"\n New Review Generated:">>

\* mutant of RecordText: only the identifier is printed
RecordText_id_only(r) == <<" Review ID: ", r.review_id>>

\* line 63: print(f" Review ID: {review}")
RecordText(r) == <<" Review ID: ">> \o repr_dict(r)

-----------------------------------------------------------------------------
(* The wall clock *)

SecondsPerDay == 24 * 60 * 60

\* the clock t after s more seconds, s < SecondsPerDay
Advance(t, s) ==
    IF t.sec + s < SecondsPerDay THEN [date |-> t.date, sec |-> t.sec + s]
    ELSE [date |-> NextDay(t.date), sec |-> t.sec + s - SecondsPerDay]

\* The moments the program may be started at: ten seconds before midnight
\* (the second sleep crosses into the next day) on the last day of a common
\* year, before a leap day, before 1 March of a common year and of a century
\* year, at the end of a 30-day month, and before the last day of a leap year.
StartClocks ==
    { [date |-> d, sec |-> SecondsPerDay - 2 * SleepSeconds] :
        d \in { MkDate(2023, 12, 31), MkDate(2024, 2, 28), MkDate(2023, 2, 28),
                MkDate(2100, 2, 28), MkDate(2023, 4, 30), MkDate(2024, 12, 30) } }

-----------------------------------------------------------------------------
(* The program *)

Unbound == [unbound |-> TRUE]

Init ==
    /\ airlines = airlines_literal
    /\ sample_titles = sample_titles_literal
    /\ sample_bodies = sample_bodies_literal
    /\ review = Unbound
    /\ stdout = <<>>
    /\ now \in StartClocks
    /\ pc = "generate"
    /\ calls = <<>>
    /\ events = <<>>

\* mutant of Generate: the generator takes the airline out of the pool,
\* airlines.pop(...), so that no airline is drawn twice
Generate_consuming ==
    /\ pc = "generate"
    /\ Len(calls) < MaxIter
    /\ \E w \in RandomOutcomes :
         LET res == generate_fake_review(airlines, sample_titles, sample_bodies,
                                         now.date, w)
             at  == Pick(w["airline"], 1, Len(airlines))
         IN  /\ calls' = Append(calls, [result |-> res, today |-> now.date, at |-> now])
             /\ airlines' = SubSeq(airlines, 1, at - 1)
                               \o SubSeq(airlines, at + 1, Len(airlines))
             /\ IF res.ok
                THEN review' = res.value /\ pc' = "print_header"
                ELSE review' = review /\ pc' = "crashed"
    /\ events' = Append(events, "generate")
    /\ UNCHANGED <<sample_titles, sample_bodies, stdout, now>>

\* line 61: review = generate_fake_review(); an exception is not caught and
\* ends the process
Generate ==
    /\ pc = "generate"
    /\ Len(calls) < MaxIter
    /\ \E w \in RandomOutcomes :
         LET res == generate_fake_review(airlines, sample_titles, sample_bodies,
                                         now.date, w)
         IN  /\ calls' = Append(calls, [result |-> res, today |-> now.date, at |-> now])
             /\ IF res.ok
                THEN review' = res.value /\ pc' = "print_header"
                ELSE review' = review /\ pc' = "crashed"
    /\ events' = Append(events, "generate")
    /\ UNCHANGED <<airlines, sample_titles, sample_bodies, stdout, now>>

\* line 62
PrintHeader ==
    /\ pc = "print_header"
    /\ stdout' = Append(stdout, HeaderText)
    /\ pc' = "print_record"
    /\ events' = Append(events, "header")
    /\ UNCHANGED <<airlines, sample_titles, sample_bodies, review, now, calls>>

\* mutant of PrintRecord: the sleep is outside the loop body
PrintRecord_then_loop ==
    /\ pc = "print_record"
    /\ stdout' = Append(stdout, RecordText(review))
    /\ pc' = "generate"
    /\ events' = Append(events, "record")
    /\ UNCHANGED <<airlines, sample_titles, sample_bodies, review, now, calls>>

\* line 63
PrintRecord ==
    /\ pc = "print_record"
    /\ stdout' = Append(stdout, RecordText(review))
    /\ pc' = "sleep"
    /\ events' = Append(events, "record")
    /\ UNCHANGED <<airlines, sample_titles, sample_bodies, review, now, calls>>

\* mutant of Sleep: a loop that is left after its body, the script ends
Sleep_then_exit ==
    /\ pc = "sleep"
    /\ now' = Advance(now, SleepSeconds)
    /\ pc' = "exit"
    /\ events' = Append(events, "sleep")
    /\ UNCHANGED <<airlines, sample_titles, sample_bodies, review, stdout, calls>>

\* line 64, and back to the head of the loop at line 60
Sleep ==
    /\ pc = "sleep"
    /\ now' = Advance(now, SleepSeconds)
    /\ pc' = "generate"
    /\ events' = Append(events, "sleep")
    /\ UNCHANGED <<airlines, sample_titles, sample_bodies, review, stdout, calls>>

Next == Generate \/ PrintHeader \/ PrintRecord \/ Sleep

Spec == Init /\ [][Next]_vars

\* the process is scheduled: a step that can be taken is eventually taken
FairSpec == Spec /\ WF_vars(Next)

-----------------------------------------------------------------------------
(* Vocabulary of the properties *)

\* the dicts the generator has returned so far, in call order
Returned == [i \in 1..Len(calls) |-> calls[i].result]

\* the calls that returned a dict
Succeeded == { i \in 1..Len(calls) : calls[i].result.ok }

\* review blocks on standard output: one per pair of print() calls
NBlocks == Len(stdout) \div 2

\* iterations of the driver loop that have run to their end
Completed == Cardinality({ i \in 1..Len(events) : events[i] = "sleep" })

IsDigit(c) == \E n \in 0..9 : DigitChars[n + 1] = c

DigitValue(c) == CHOOSE n \in 0..9 : DigitChars[n + 1] = c

\* the number a run of decimal digits denotes
RECURSIVE Number(_)
Number(s) ==
    IF Len(s) = 0 THEN 0
    ELSE 10 * Number(SubSeq(s, 1, Len(s) - 1)) + DigitValue(s[Len(s)])

\* s has the shape YYYY-MM-DD
IsISODateText(s) ==
    /\ Len(s) = 10
    /\ \A i \in {1, 2, 3, 4, 6, 7, 9, 10} : IsDigit(s[i])
    /\ s[5] = "-"
    /\ s[8] = "-"

\* the date a text of that shape denotes
ParsedDate(s) ==
    MkDate(Number(SubSeq(s, 1, 4)), Number(SubSeq(s, 6, 7)), Number(SubSeq(s, 9, 10)))

IsCalendarDate(d) ==
    /\ d.month \in 1..12
    /\ d.day \in 1..DaysInMonth(d.year, d.month)

\* text holds the pieces pat in a row
Contains(text, pat) ==
    \E i \in 1..(Len(text) - Len(pat) + 1) : SubSeq(text, i, i + Len(pat) - 1) = pat

-----------------------------------------------------------------------------
(* C1 *)

\* C1: every record generate_fake_review() has returned, after any number of
\* driver iterations, has an integer rating in {1,2,3,4,5}.
C1_RatingInRange ==
    \A i \in Succeeded :
        /\ Returned[i].value.rating \in Int
        /\ Returned[i].value.rating \in {1, 2, 3, 4, 5}

\* both ends of the range have been drawn, in different iterations
C1_Witness ==
    /\ \E i \in Succeeded : Returned[i].value.rating = 1
    /\ \E i \in Succeeded : Returned[i].value.rating = 5

-----------------------------------------------------------------------------
(* C2 *)

\* C2: every returned record has its airline in the fixed airlines list, its
\* title in the fixed sample_titles list and its body in the fixed
\* sample_bodies list.
C2_DrawnFromPools ==
    \A i \in Succeeded :
        /\ Returned[i].value.airline \in Range(airlines_literal)
        /\ Returned[i].value.title \in Range(sample_titles_literal)
        /\ Returned[i].value.body \in Range(sample_bodies_literal)

\* three records: the last airline beside the first title, the last title
\* beside the first body, the last body beside the first airline
C2_Witness ==
    /\ \E i \in Succeeded :
          /\ Returned[i].value.airline = "EasyJet"
          /\ Returned[i].value.title = "Excellent experience"
    /\ \E i \in Succeeded :
          /\ Returned[i].value.title = "Terrible customer service"
          /\ Returned[i].value.body =
               "The flight was on time and the crew was extremely helpful and friendly."
    /\ \E i \in Succeeded :
          /\ Returned[i].value.body = "Inflight entertainment was outdated and barely worked."
          /\ Returned[i].value.airline = "Air France"

-----------------------------------------------------------------------------
(* C4 *)

\* C4: the date of every returned record is a text YYYY-MM-DD that denotes a
\* valid calendar date whose year is the year of the day the call was made.
C4_DateValidThisYear ==
    \A i \in Succeeded :
        /\ IsISODateText(Returned[i].value.date)
        /\ IsCalendarDate(ParsedDate(Returned[i].value.date))
        /\ ParsedDate(Returned[i].value.date).year = calls[i].today.year

\* a call made on the last day of a year returned that day, and the clock
\* has since moved into the next year
C4_Witness ==
    \E i \in Succeeded :
        /\ calls[i].today.year < now.date.year
        /\ Returned[i].value.date = <<"2", "0", "2", "3", "-", "1", "2", "-", "3", "1">>

-----------------------------------------------------------------------------
(* C5 *)

\* C5: generate_fake_review() always succeeds: no call ends in an error, the
\* process never dies of one, every call returns a record with exactly the
\* seven fields, and each of the three pools it samples is non-empty.
C5_AlwaysSucceeds ==
    /\ pc # "crashed"
    /\ Len(airlines) > 0 /\ Len(sample_titles) > 0 /\ Len(sample_bodies) > 0
    /\ \A i \in 1..Len(calls) :
          /\ Returned[i].ok
          /\ DOMAIN Returned[i].value =
               {"review_id", "airline", "reviewer", "rating", "date", "title", "body"}

\* a call has returned with every draw at its high end
C5_Witness ==
    /\ pc = "print_header"
    /\ Len(calls) = 1
    /\ Returned[1].ok
    /\ Returned[1].value.airline = "EasyJet"
    /\ Returned[1].value.rating = 5

-----------------------------------------------------------------------------
(* C6 *)

\* C6: the driver loop has no termination condition: the program is always
\* at one of the four statements of the loop and, until the model's bound on
\* the number of calls, always has a next step; under fair scheduling every
\* number of blocks below the bound is followed by one more block.
C6_NeverTerminates ==
    /\ [](pc \in {"generate", "print_header", "print_record", "sleep"})
    /\ [](Len(calls) < MaxIter => ENABLED Next)
    /\ \A n \in 0..(MaxIter - 1) : (NBlocks = n) ~> (NBlocks = n + 1)

\* the loop is back at its head after two whole iterations, ready for a third
C6_Witness ==
    /\ pc = "generate"
    /\ Completed = 2
    /\ NBlocks = 2
    /\ ENABLED Generate

-----------------------------------------------------------------------------
(* C7 *)

\* C7: the steps of every iteration run in the order generate, write (header
\* then record), sleep; what is written is the record generated in that same
\* iteration; a generation starts only when every earlier iteration's sleep
\* is over, so consecutive blocks are one sleep of 5 seconds apart.
C7_StepOrder ==
    /\ \A i \in 1..Len(events) :
          events[i] = <<"generate", "header", "record", "sleep">>[((i - 1) % 4) + 1]
    /\ pc = "generate" => Completed = Len(calls)
    /\ pc \in {"print_header", "print_record", "sleep"} =>
          /\ Completed = Len(calls) - 1
          /\ review = Returned[Len(calls)].value
    /\ \A k \in 1..NBlocks : stdout[2 * k] = RecordText(Returned[k].value)
    /\ \A k \in 1..(Len(calls) - 1) : calls[k + 1].at = Advance(calls[k].at, 5)

\* the second block is being written, one sleep after the first
C7_Witness ==
    /\ pc = "sleep"
    /\ events = <<"generate", "header", "record", "sleep", "generate", "header", "record">>
    /\ Returned[1].value # Returned[2].value

-----------------------------------------------------------------------------
(* C8 *)

\* the pieces that render field k of record r: 'k': value
FieldText(r, k) ==
    <<"'", k, "'", ": ">> \o
    (IF k = "rating" THEN Decimal(r.rating)
     ELSE IF k = "date" THEN <<"'">> \o r.date \o <<"'">>
     ELSE <<"'", r[k], "'">>)

\* C8: after k completed iterations standard output holds exactly k blocks,
\* the i-th for the i-th generated record; a block is the literal header
\* followed by one text that starts " Review ID: " and renders the whole
\* record, all seven fields.
C8_BlocksPerIteration ==
    pc = "generate" =>
        /\ Len(stdout) = 2 * Completed
        /\ Len(calls) = Completed
        /\ \A i \in 1..Completed :
              /\ stdout[2 * i - 1] = <<"\n New Review Generated:">>
              /\ stdout[2 * i][1] = " Review ID: "
              /\ \A f \in {"review_id", "airline", "reviewer", "rating", "date",
                           "title", "body"} :
                    Contains(stdout[2 * i], FieldText(Returned[i].value, f))

\* three iterations are over and their three records differ pairwise
C8_Witness ==
    /\ pc = "generate"
    /\ Completed = 3
    /\ Len(stdout) = 6
    /\ Returned[1] # Returned[2]
    /\ Returned[2] # Returned[3]
    /\ Returned[1] # Returned[3]

-----------------------------------------------------------------------------
(* C9 *)

\* a record valid on its own: every field within its constraint
ValidRecord(r, today) ==
    /\ DOMAIN r = {"review_id", "airline", "reviewer", "rating", "date", "title", "body"}
    /\ r.airline \in Range(airlines_literal)
    /\ r.title \in Range(sample_titles_literal)
    /\ r.body \in Range(sample_bodies_literal)
    /\ r.rating \in 1..5
    /\ IsISODateText(r.date)
    /\ IsCalendarDate(ParsedDate(r.date))
    /\ ParsedDate(r.date).year = today.year

\* C9: no state is carried between iterations: the three pools are what they
\* were at start, and each of the N calls made so far returned a record that
\* is valid on its own, whatever the earlier calls returned.
C9_NoCarriedState ==
    /\ airlines = airlines_literal
    /\ sample_titles = sample_titles_literal
    /\ sample_bodies = sample_bodies_literal
    /\ \A i \in 1..Len(calls) :
          Returned[i].ok /\ ValidRecord(Returned[i].value, calls[i].today)

\* the third call returned the very record the first call returned
C9_Witness ==
    /\ Len(calls) = 3
    /\ Returned[3] = Returned[1]
    /\ Returned[2] # Returned[1]

-----------------------------------------------------------------------------
(* C10 *)

\* C10: the date of a returned record lies between 1 January of the year of
\* the call and the day of the call, both included: never in the future.
C10_DateNotInFuture ==
    \A i \in Succeeded :
        /\ DateLeq(MkDate(calls[i].today.year, 1, 1), ParsedDate(Returned[i].value.date))
        /\ DateLeq(ParsedDate(Returned[i].value.date), calls[i].today)

\* a call made late in the year returned the day of the call itself, and
\* another returned 1 January
C10_Witness ==
    /\ \E i \in Succeeded :
          /\ ParsedDate(Returned[i].value.date) = calls[i].today
          /\ calls[i].today.month = 12
    /\ \E i \in Succeeded :
          /\ ParsedDate(Returned[i].value.date) = MkDate(calls[i].today.year, 1, 1)
          /\ calls[i].today.month = 12

=============================================================================
